---- MODULE Spec2Model ----
(***************************************************************************)
(* A model of the colour mixing, hue blending, contrast adjustment and     *)
(* piecewise linear interpolation code of coloraide.                       *)
(*                                                                         *)
(* Real numbers are exact fixed-point integers:                            *)
(*   - an ordinary channel value x is the integer x * U;                   *)
(*   - a hue kept as a fraction of a turn t is the integer t * TU, so that *)
(*     the same hue measured in degrees, in units of 1/U degree, is        *)
(*     t * TU * scale / 360;                                               *)
(*   - a blend factor is an exact fraction <<numerator, denominator>>.     *)
(* The input grids are chosen so that every division below is exact.       *)
(***************************************************************************)
EXTENDS Integers, Sequences, FiniteSets, TLC

VARIABLES
    pc,         \* position of the running operation
    self,       \* the colour object the operation is called on
    call,       \* the operation last applied, with its arguments and result
    frame,      \* the local variables of min_contrast
    interp      \* the InterpolatorLinear object

vars == <<pc, self, call, frame, interp>>

----------------------------------------------------------------------------
(* Bounds of the model *)

\* blend factors are the fractions 0/FD .. FD/FD
FD == 4

\* hue inputs are the multiples of HueStep degrees, with 10 and 350 degrees
HueStep == 45

----------------------------------------------------------------------------
(* Numbers *)

\* one unit of an ordinary channel
U == FD * FD

\* one turn of a hue kept as a fraction of a turn
TU == 360 * U

\* n degrees, in units of 1/U degree
Deg(n) == n * U

Abs(x) == IF x < 0 THEN 0 - x ELSE x

\* the undefined marker (util.NAN): no number of the model equals it
NAN == 0 - 2^30

IsNaN(x) == x = NAN

\* a missing bound of clamp (Python's None)
None == 0 - (2^30 + 1)

Max2(a, b) == IF a > b THEN a ELSE b

Min2(a, b) == IF a < b THEN a ELSE b

\* util.clamp(value, mn, mx)
clamp(value, mn, mx) ==
    LET lo == IF mn = None THEN value ELSE Max2(value, mn)
    IN  IF mx = None THEN lo ELSE Min2(lo, mx)

\* the fractions 0/FD .. FD/FD
Factors == {<<n, FD>> : n \in 0..FD}

----------------------------------------------------------------------------
(* tools.py: channel blending *)

\* abs(c2 * f1 + c1 * f2 * (1 - f1)), f1 and f2 exact fractions
mix_channel(c1, c2, f1, f2) ==
    Abs((c2 * f1[1] * f2[2] + c1 * f2[1] * (f1[2] - f1[1]))
            \div (f1[2] * f2[2]))

\* c *= scale: a fraction of a turn scaled to degrees
ScaleUp(c, scale) == (c * scale) \div 360

\* value / scale: degrees scaled back to a fraction of a turn
ScaleDown(value, scale) == (value * 360) \div scale

\* if not (0.0 <= value <= 360.0): value = value % 360.0
HueWrap(value) ==
    IF ~(0 <= value /\ value <= Deg(360)) THEN value % Deg(360) ELSE value

\* the two hues in degrees after the 360 degree correction of lines 72-76
HueFix(c1, c2) ==
    IF Abs((c1 % Deg(360)) - c2) > Deg(180)
    THEN IF c1 < c2 THEN <<c1 + Deg(360), c2>> ELSE <<c1, c2 + Deg(360)>>
    ELSE <<c1, c2>>

\* the blended hue in degrees, before the wrap of lines 79-80
HueValue(c1, c2, f1, f2, scale) ==
    LET p == HueFix(ScaleUp(c1, scale), ScaleUp(c2, scale))
    IN  mix_channel(p[1], p[2], f1, f2)

hue_mix_channel(c1, c2, f1, f2, scale) ==
    IF IsNaN(c1) /\ IsNaN(c2) THEN 0
    ELSE IF IsNaN(c1) THEN c2
    ELSE IF IsNaN(c2) THEN c1
    ELSE ScaleDown(HueWrap(HueValue(c1, c2, f1, f2, scale)), scale)

----------------------------------------------------------------------------
(* lab.py: the Lab colour *)

\* the setters of _cl, _ca and _cb (lines 54, 73, 91)
LAB_set(coords) ==
    <<clamp(coords[1], 0, None),
      clamp(coords[2], None, None),
      clamp(coords[3], None, None)>>

\* _LAB._mix: the coordinates of self after the call
LAB_mix(coords1, coords2, factor, factor2) ==
    LAB_set(<<mix_channel(coords1[1], coords2[1], factor, factor2),
              mix_channel(coords1[2], coords2[2], factor, factor2),
              mix_channel(coords1[3], coords2[3], factor, factor2)>>)

----------------------------------------------------------------------------
(* hwb.py: the HWB colour; the hue is a real number of TU units per 1.0, *)
(* whiteness and blackness are percentages of U units per 1.0            *)

\* util.DEF_PREC decimal places: 10 ^ 5 units per 1.0 after rounding
PrecOne == 10 ^ 5

\* util.ACHROMATIC_THRESHOLD = 0.0005, in units of 1 / PrecOne
ACHROMATIC_THRESHOLD == 50

\* util.round_half_up(c, scale=util.DEF_PREC) of c >= 0: units of 1 / PrecOne
round_half_up(c) == (2 * c * PrecOne + U) \div (2 * U)

\* HWB._is_achromatic
HWB_is_achromatic(coords) ==
    round_half_up(coords[2]) + round_half_up(coords[3])
        > 100 * PrecOne - ACHROMATIC_THRESHOLD

\* lines 107-110 left out: the hue is kept whatever the colour
HWB_hue_kept(coords) == coords[1]

\* the hue of a channel list after lines 107-110
HWB_hue(coords) == IF HWB_is_achromatic(coords) THEN NAN ELSE coords[1]

\* HWB._mix: the coordinates of self after the call
HWB_mix(channels1, channels2, factor, factor2) ==
    <<hue_mix_channel(HWB_hue(channels1), HWB_hue(channels2),
                      factor, factor2, 360),
      mix_channel(channels1[2], channels2[2], factor, factor2),
      mix_channel(channels1[3], channels2[3], factor, factor2)>>

\* HWB._on_convert clamping the hue instead of wrapping it
HWB_on_convert_clamp(ch) == clamp(ch, 0, 360 * TU)

\* HWB._on_convert: the hue it leaves
HWB_on_convert(ch) ==
    IF ~(0 <= ch /\ ch <= 360 * TU) THEN ch % (360 * TU) ELSE ch

----------------------------------------------------------------------------
(* Inputs of the blending operations *)

\* hues in degrees
HueDegs == {d \in 0..360 : d % HueStep = 0 \/ d \in {10, 350}}

\* hues as fractions of a turn, and the undefined marker
HueInputs == {d * U : d \in HueDegs} \cup {NAN}

\* Lab colours: a and b may be negative
LabColors == {<<l * U, a * U, b * U>> : l \in {0, 50}, a \in {-50, 20}, b \in {-20, 30}}

\* HWB colours: whiteness 60 with blackness 40 is achromatic
HWBColors == {<<h * TU, w * U, b * U>> : h \in {0, 10, 350}, w \in {0, 60}, b \in {0, 40}}

\* hues a conversion may leave, in degrees: below 0, in range, above 360
RawHues == {(0 - 370) * TU, (0 - 10) * TU, 0, 90 * TU, 360 * TU, 361 * TU, 730 * TU}

Color(space, coords, alpha) == [space |-> space, coords |-> coords, alpha |-> alpha]

----------------------------------------------------------------------------
(* The blending operations *)

\* a colour of either space constructed from DEF_BG; one operation is then
\* applied to it
InitMix ==
    /\ pc = "mix"
    /\ self \in {Color("lab", <<0, 0, 0>>, U), Color("hwb", <<0, 0, 0>>, U)}
    /\ call = [op |-> "new"]
    /\ frame = <<>>
    /\ interp = <<>>

\* _ColorTools._hue_mix_channel(c1, c2, f1, f2)
HueMix ==
    /\ pc = "mix"
    /\ \E c1 \in HueInputs, c2 \in HueInputs, f1 \in Factors, f2 \in Factors :
          call' = [op |-> "hue_mix", c1 |-> c1, c2 |-> c2, f1 |-> f1, f2 |-> f2,
                   value |-> IF IsNaN(c1) \/ IsNaN(c2) THEN NAN
                             ELSE HueValue(c1, c2, f1, f2, 360),
                   out |-> hue_mix_channel(c1, c2, f1, f2, 360)]
    /\ pc' = "mixed"
    /\ UNCHANGED <<self, frame, interp>>

\* _LAB._mix(coords1, coords2, factor, factor2)
LabMix ==
    /\ pc = "mix"
    /\ self.space = "lab"
    /\ \E c1 \in LabColors, c2 \in LabColors, f1 \in Factors, f2 \in Factors :
          /\ self' = [self EXCEPT !.coords = LAB_mix(c1, c2, f1, f2)]
          /\ call' = [op |-> "lab_mix", c1 |-> c1, c2 |-> c2, f1 |-> f1, f2 |-> f2]
    /\ pc' = "mixed"
    /\ UNCHANGED <<frame, interp>>

\* HWB._mix(channels1, channels2, factor, factor2)
HWBMix ==
    /\ pc = "mix"
    /\ self.space = "hwb"
    /\ \E c1 \in HWBColors, c2 \in HWBColors, f1 \in Factors, f2 \in Factors :
          /\ self' = [self EXCEPT !.coords = HWB_mix(c1, c2, f1, f2)]
          /\ call' = [op |-> "hwb_mix", c1 |-> c1, c2 |-> c2, f1 |-> f1, f2 |-> f2,
                      h1 |-> HWB_hue(c1), h2 |-> HWB_hue(c2)]
    /\ pc' = "mixed"
    /\ UNCHANGED <<frame, interp>>

\* HWB._on_convert(), after a conversion stored the hue raw in self
HWBOnConvert ==
    /\ pc = "mix"
    /\ self.space = "hwb"
    /\ \E raw \in RawHues :
          /\ self' = [self EXCEPT !.coords[1] = HWB_on_convert(raw)]
          /\ call' = [op |-> "on_convert", raw |-> raw]
    /\ pc' = "mixed"
    /\ UNCHANGED <<frame, interp>>

NextMix == HueMix \/ LabMix \/ HWBMix \/ HWBOnConvert

SpecMix == InitMix /\ [][NextMix]_vars

----------------------------------------------------------------------------
(* Properties of the blending operations *)

\* the factor 0.0
F0 == <<0, FD>>

\* the factor 1.0
F1 == <<FD, FD>>

\* the distance in degrees between two hues around the colour wheel
ArcDist(x, y) == LET d == (x - y) % Deg(360) IN Min2(d, Deg(360) - d)

\* r lies on an arc of at most 180 degrees between h1 and h2
OnShortArc(h1, h2, r) == ArcDist(h1, r) + ArcDist(r, h2) = ArcDist(h1, h2)

DefinedHueMix == call.op = "hue_mix" /\ ~IsNaN(call.c1) /\ ~IsNaN(call.c2)

\* C4: for defined hues h1, h2 in 0..360 degrees, both endpoints included,
\* and factor2 = 1, the hue blend returns a hue on the arc of at most 180
\* degrees between h1 and h2; 10 and 350 degrees at 0.5 give 0 or 360.
C4_ShortArc ==
    (DefinedHueMix /\ call.f2 = F1) =>
        /\ OnShortArc(ScaleUp(call.c1, 360), ScaleUp(call.c2, 360),
                      ScaleUp(call.out, 360))
        /\ (call.c1 = 10 * U /\ call.c2 = 350 * U /\ 2 * call.f1[1] = FD)
              => ScaleUp(call.out, 360) \in {0, Deg(360)}

\* C5: when both hue inputs are the undefined marker, the hue blend returns
\* the undefined marker, for every factor and factor2.
C5_BothUndefined ==
    (call.op = "hue_mix" /\ IsNaN(call.c1) /\ IsNaN(call.c2)) => IsNaN(call.out)

\* exactly one of the two colours of the last HWB._mix is achromatic
OneAchromatic ==
    /\ call.op = "hwb_mix"
    /\ HWB_is_achromatic(call.c1) # HWB_is_achromatic(call.c2)

\* c * f1d * f2d = |c2 * f1 + c1 * f2 * (1 - f1)| * f1d * f2d
IsBlend(c, c1, c2, f1, f2) ==
    c * f1[2] * f2[2] = Abs(c2 * f1[1] * f2[2] + c1 * f2[1] * (f1[2] - f1[1]))

\* C6: in HWB._mix with exactly one achromatic colour, the achromatic hue is
\* replaced by the undefined marker, the hue of self is the chromatic
\* colour's hue exactly, and whiteness and blackness are blended by the
\* ordinary channel formula.
C6_AchromaticHue ==
    OneAchromatic =>
        LET achro1 == HWB_is_achromatic(call.c1)
        IN  /\ IsNaN(IF achro1 THEN call.h1 ELSE call.h2)
            /\ self.coords[1] = (IF achro1 THEN call.c2[1] ELSE call.c1[1])
            /\ IsBlend(self.coords[2], call.c1[2], call.c2[2], call.f1, call.f2)
            /\ IsBlend(self.coords[3], call.c1[3], call.c2[3], call.f1, call.f2)

\* a chromatic colour of hue 350 blended half way with an achromatic one
C6_Witness ==
    /\ OneAchromatic
    /\ HWB_is_achromatic(call.c1)
    /\ call.c2[1] = 350 * TU
    /\ call.c1[1] = 10 * TU
    /\ 2 * call.f1[1] = FD
    /\ self.coords[1] = 350 * TU

\* C7: for every non-hue channel, Lab a and b included, the pairwise mix
\* with factor2 = 1 returns c1 at factor 0.0 and c2 at factor 1.0.
C7_MixBoundary ==
    (call.op = "lab_mix" /\ call.f2 = F1) =>
        /\ call.f1 = F0 => self.coords = call.c1
        /\ call.f1 = F1 => self.coords = call.c2

\* the hue h in degrees is congruent modulo 360 to v
Congruent(h, v, turn) == (h - v) % turn = 0

\* C8 as stated: every hue the hue blend produces for defined inputs, and
\* every hue HWB._on_convert leaves, lies in [0, 360) degrees and is
\* congruent modulo 360 to the unwrapped value.
C8_HalfOpen ==
    /\ DefinedHueMix =>
          /\ 0 <= ScaleUp(call.out, 360) /\ ScaleUp(call.out, 360) < Deg(360)
          /\ Congruent(ScaleUp(call.out, 360), call.value, Deg(360))
    /\ call.op = "on_convert" =>
          /\ 0 <= self.coords[1] /\ self.coords[1] < 360 * TU
          /\ Congruent(self.coords[1], call.raw, 360 * TU)

\* C8 amended: the range is the closed range [0, 360] degrees: 360 itself is
\* kept, every other value is congruent modulo 360 to the unwrapped value
\* and negative values wrap forward.
C8_ClosedRange ==
    /\ DefinedHueMix =>
          /\ 0 <= ScaleUp(call.out, 360) /\ ScaleUp(call.out, 360) <= Deg(360)
          /\ Congruent(ScaleUp(call.out, 360), call.value, Deg(360))
    /\ call.op = "on_convert" =>
          /\ 0 <= self.coords[1] /\ self.coords[1] <= 360 * TU
          /\ Congruent(self.coords[1], call.raw, 360 * TU)

\* a conversion left the hue -10 degrees and the hook wrapped it to 350
C8_Witness ==
    /\ call.op = "on_convert"
    /\ call.raw = (0 - 10) * TU
    /\ self.coords[1] = 350 * TU

----------------------------------------------------------------------------
(* tools.py: luminance and contrast; an sRGB channel value x is the       *)
(* integer x * CU, a luminance l is the integer l * LU, a mix fraction of *)
(* the bisection is an exact fraction over MixOne                         *)

\* grey levels of the sRGB inputs: 0/GrayLevels .. GrayLevels/GrayLevels
GrayLevels == 4

\* the bisection's fractions are exact multiples of 2 ^ -MixBits
MixBits == 10

\* the model stops counting iterations of the bisection at MaxIters
MaxIters == 12

MixOne == 2 ^ MixBits

\* one unit of an sRGB channel
CU == MixOne * GrayLevels

\* one unit of luminance
LU == 10 ^ 5

\* 0.05 of luminance
L005 == LU \div 20

\* convert.lin_srgb at 0/16 .. 16/16, in luminance units
LinTable ==
    <<0, 516, 1435, 2934, 5088, 7958, 11602, 16068, 21404, 27652, 34851,
      43039, 52252, 62523, 73884, 86367, 100000>>

\* convert.lin_srgb of one channel: linear between the table's entries
lin_srgb(c) ==
    LET j == IF c >= CU THEN 15 ELSE (c * 16) \div CU
        frac == c * 16 - j * CU
    IN  LinTable[j + 1] + ((LinTable[j + 2] - LinTable[j + 1]) * frac) \div CU

\* calc_luminance(srgb)
calc_luminance(srgb) ==
    (2126 * lin_srgb(srgb[1]) + 7152 * lin_srgb(srgb[2])
        + 722 * lin_srgb(srgb[3])) \div 10000

\* line 13 without the test: always lum1 over lum2
calc_contrast_ratio_unordered(lum1, lum2) == <<lum1 + L005, lum2 + L005>>

\* calc_contrast_ratio(lum1, lum2), as the exact fraction <<num, den>>
calc_contrast_ratio(lum1, lum2) ==
    IF lum1 > lum2 THEN <<lum1 + L005, lum2 + L005>>
    ELSE <<lum2 + L005, lum1 + L005>>

\* comparisons of exact fractions with positive denominators
FracLT(a, b) == a[1] * b[2] < b[1] * a[2]

FracGE(a, b) == a[1] * b[2] >= b[1] * a[2]

WHITE == <<CU, CU, CU>>

BLACK == <<0, 0, 0>>

\* the _mix of an sRGB colour: every channel is blended by _mix_channel
SRGB_mix(coords1, coords2, factor) ==
    [k \in 1..3 |-> mix_channel(coords1[k], coords2[k], factor, <<1, 1>>)]

\* luminance() of a colour of the sRGB space
luminance(color) == calc_luminance(color.coords)

\* line 101 with > in place of >=
already_met_strict(target, ratio) ==
    FracLT(target, <<1, 1>>) \/ FracLT(target, ratio)

\* line 101: the target is already met or is impossible
already_met(target, ratio) == FracLT(target, <<1, 1>>) \/ FracGE(ratio, target)

\* lines 104-106: the required luminance, as an exact fraction
required_lum(lum2, target) ==
    LET below == <<(lum2 + L005) * target[2] - L005 * target[1], target[1]>>
    IN  IF below[1] < 0
        THEN <<target[1] * (lum2 + L005) - L005 * target[2], target[2]>>
        ELSE below

\* lum > required_lum
LumGT(lum, req) == lum * req[2] > req[1]

\* line 123: abs(min_mix - max_mix) > 0.001
loop_guard(min_mix, max_mix) == Abs(min_mix - max_mix) * 1000 > MixOne

\* line 124
mid_mix(max_mix, min_mix) == (max_mix + min_mix) \div 2

\* lines 129-132 without the assignment of the else branch
next_interval_stuck(lum, req, mid, min_mix, max_mix) ==
    IF LumGT(lum, req) THEN <<min_mix, mid>> ELSE <<min_mix, max_mix>>

\* lines 129-132: <<min_mix, max_mix>> after the luminance comparison
next_interval(lum, req, mid, min_mix, max_mix) ==
    IF LumGT(lum, req) THEN <<min_mix, mid>> ELSE <<mid, max_mix>>

\* lines 134-137: the luminance is the best one seen that meets the target
is_better(is_dark, lum, req, last_lum) ==
    \/ is_dark /\ ~(lum * req[2] < req[1]) /\ lum < last_lum
    \/ ~is_dark /\ ~LumGT(lum, req) /\ lum > last_lum

----------------------------------------------------------------------------
(* min_contrast, one step at a time *)

SRGBColors ==
    {<<g * MixOne, g * MixOne, g * MixOne>> : g \in 0..GrayLevels}
        \cup {<<CU, 0, 0>>, <<0, CU, 0>>, <<0, 0, CU>>}

\* the targets 0.5, 1, 1.5, 3, 4.5, 7 and 15
Targets == {<<n, 2>> : n \in {1, 2, 3, 6, 9, 14, 30}}

\* self.min_contrast(color, target) has just been called
InitContrast ==
    /\ pc = "call"
    /\ \E c \in SRGBColors : self = Color("srgb", c, U)
    /\ \E c \in SRGBColors, t \in Targets :
          call = [op |-> "min_contrast", color |-> Color("srgb", c, U),
                  target |-> t, self0 |-> self]
    /\ frame = <<>>
    /\ interp = <<>>

\* lines 96-102: the early return
MinContrastReturn ==
    /\ pc = "call"
    /\ LET lum1 == luminance(self)
           lum2 == luminance(call.color)
       IN  already_met(call.target, calc_contrast_ratio(lum1, lum2))
    /\ pc' = "done"
    /\ UNCHANGED <<self, call, frame, interp>>

\* lines 96-121: the search is set up
MinContrastSetup ==
    /\ pc = "call"
    /\ LET lum1 == luminance(self)
           lum2 == luminance(call.color)
           is_dark == lum2 < lum1
       IN  /\ ~already_met(call.target, calc_contrast_ratio(lum1, lum2))
           /\ frame' = [required_lum |-> required_lum(lum2, call.target),
                        is_dark |-> is_dark,
                        mix |-> IF is_dark THEN WHITE ELSE BLACK,
                        min_mix |-> IF is_dark THEN 0 ELSE MixOne,
                        max_mix |-> IF is_dark THEN MixOne ELSE 0,
                        last_lum |-> IF is_dark THEN LU ELSE 0,
                        last_mix |-> MixOne,
                        temp |-> self,
                        c |-> self.coords,
                        iters |-> 0]
    /\ pc' = "loop"
    /\ UNCHANGED <<self, call, interp>>

\* lines 123-139: one iteration of the bisection
MinContrastIterate ==
    /\ pc = "loop"
    /\ loop_guard(frame.min_mix, frame.max_mix)
    /\ frame.iters < MaxIters
    /\ LET mid == mid_mix(frame.max_mix, frame.min_mix)
           temp == [frame.temp EXCEPT
                       !.coords = SRGB_mix(frame.c, frame.mix, <<mid, MixOne>>)]
           lum2 == luminance(temp)
           iv == next_interval(lum2, frame.required_lum, mid,
                               frame.min_mix, frame.max_mix)
           better == is_better(frame.is_dark, lum2, frame.required_lum,
                               frame.last_lum)
       IN  frame' = [frame EXCEPT
                        !.temp = temp,
                        !.min_mix = iv[1],
                        !.max_mix = iv[2],
                        !.last_lum = IF better THEN lum2 ELSE @,
                        !.last_mix = IF better THEN mid ELSE @,
                        !.iters = @ + 1]
    /\ UNCHANGED <<pc, self, call, interp>>

\* lines 141-143: the best mix is committed to self
MinContrastCommit ==
    /\ pc = "loop"
    /\ ~loop_guard(frame.min_mix, frame.max_mix)
    /\ LET temp == [frame.temp EXCEPT
                       !.coords = SRGB_mix(frame.c, frame.mix,
                                           <<frame.last_mix, MixOne>>)]
       IN  /\ frame' = [frame EXCEPT !.temp = temp]
           /\ self' = [self EXCEPT !.coords = temp.coords]
    /\ pc' = "done"
    /\ UNCHANGED <<call, interp>>

NextContrast ==
    MinContrastReturn \/ MinContrastSetup \/ MinContrastIterate \/ MinContrastCommit

SpecContrast == InitContrast /\ [][NextContrast]_vars

\* the call runs to completion: no step of it waits for anything
FairSpecContrast == SpecContrast /\ WF_vars(NextContrast)

----------------------------------------------------------------------------
(* Properties of min_contrast *)

\* the contrast ratio of the original self against the other colour
Ratio0 == calc_contrast_ratio(luminance(call.self0), luminance(call.color))

\* the contrast ratio of self, as it is now, against the other colour
RatioNow == calc_contrast_ratio(luminance(self), luminance(call.color))

\* some blend of the original self toward white or black reaches the target
Reachable ==
    \E m \in {k * (MixOne \div 8) : k \in 0..8}, to \in {WHITE, BLACK} :
        FracGE(calc_contrast_ratio(
                   calc_luminance(SRGB_mix(call.self0.coords, to, <<m, MixOne>>)),
                   luminance(call.color)),
               call.target)

\* target - 0.01
NearTarget == <<100 * call.target[1] - call.target[2], 100 * call.target[2]>>

\* the call went into the search
Searched == ~already_met(call.target, Ratio0)

\* C1: after min_contrast with target >= 1 and the ratio below target,
\* whenever some blend of self toward white or black reaches the target,
\* the contrast ratio of the mutated self against other is >= target - 0.01.
C1_MeetsTarget ==
    (pc = "done" /\ Searched /\ Reachable) => FracGE(RatioNow, NearTarget)

\* C2: the bisection always terminates: every iteration halves
\* |min_mix - max_mix| exactly, whatever the comparison yields, and the loop
\* that starts from [0, 1] exits after 10 iterations.
C2_Terminates ==
    /\ [][(pc = "loop" /\ pc' = "loop") =>
            /\ (frame.max_mix + frame.min_mix) % 2 = 0
            /\ 2 * Abs(frame'.min_mix - frame'.max_mix)
                  = Abs(frame.min_mix - frame.max_mix)
            /\ frame'.iters = frame.iters + 1]_vars
    /\ [](pc = "loop" => frame.iters <= 10)
    /\ []((pc = "done" /\ Searched) => frame.iters = 10)
    /\ <>(pc = "done")

\* the search ran and was committed after its iterations
C2_Witness ==
    /\ pc = "done"
    /\ Searched
    /\ frame.iters = 10
    /\ frame.last_mix \notin {0, MixOne}

\* C3: min_contrast leaves self unchanged, coordinates, alpha and space,
\* whenever target < 1 or the current ratio is already >= target.
C3_NoChange ==
    (pc = "done" /\ (FracLT(call.target, <<1, 1>>) \/ FracGE(Ratio0, call.target)))
        => self = call.self0

\* the call returned early with a target of at least 1 that was just met
C3_Witness ==
    /\ pc = "done"
    /\ call.target = <<2, 2>>
    /\ Ratio0[1] = Ratio0[2]
    /\ self.coords = <<2 * MixOne, 2 * MixOne, 2 * MixOne>>
    /\ frame = <<>>

----------------------------------------------------------------------------
(* interpolate/linear.py: a coordinate vector is the sequence of its       *)
(* channels with alpha last, in U units; the interpolator's list holds     *)
(* references into a heap of vectors, so that copies and aliases differ    *)

\* the longest stop list
MaxStops == 4

\* alpha 0.5
HalfAlpha == U \div 2

\* the vectors of the stops: a colour channel and alpha
StopVectors ==
    {<<2 * U, NAN>>, <<6 * U, HalfAlpha>>, <<NAN, U>>, <<4 * U, U>>}

\* a heap cell: the vector, the stop it was built from, and how many times
\* it was premultiplied
Cell(v, src, pm) == [v |-> v, src |-> src, pm |-> pm]

\* Interpolator.premultiply(coords, alpha): alpha, when given, replaces the
\* vector's alpha; every colour channel is multiplied by the vector's alpha
premultiply(cell, alpha) ==
    LET n == Len(cell.v)
        a == IF alpha = None THEN cell.v[n] ELSE alpha
    IN  [cell EXCEPT
            !.v = [k \in 1..n |->
                      IF k = n THEN a
                      ELSE IF IsNaN(cell.v[k]) \/ IsNaN(a) THEN cell.v[k]
                      ELSE (cell.v[k] * a) \div U],
            !.pm = @ + 1]

\* list.insert(at, x), at counted from 0
Insert(list, at, x) ==
    [k \in 1..(Len(list) + 1) |->
        IF k <= at THEN list[k] ELSE IF k = at + 1 THEN x ELSE list[k - 1]]

\* lines 26-28 inserting c2 itself instead of a copy of it
setup_insert_alias(ip) ==
    IF ip.i < ip.end
    THEN [ip EXCEPT
             !.coordinates = Insert(@, ip.i + 2, ip.coordinates[ip.i + 2]),
             !.end = @ + 1]
    ELSE ip

\* lines 26-28: a copy of c2 is inserted after it
setup_insert(ip) ==
    IF ip.i < ip.end
    THEN LET c2 == ip.coordinates[ip.i + 2]
             copy == Cell(ip.heap[c2].v, ip.heap[c2].src, ip.heap[c2].pm)
         IN  [ip EXCEPT
                 !.heap = Append(@, copy),
                 !.coordinates = Insert(@, ip.i + 2, Len(ip.heap) + 1),
                 !.end = @ + 1]
    ELSE ip

\* lines 33-51 reading the alpha of c2 again after it was mirrored
setup_premultiply_reread(heap, c1, c2) ==
    LET a == heap[c1].v[Len(heap[c1].v)]
        a_nan == IsNaN(a)
        b_nan == IsNaN(heap[c2].v[Len(heap[c2].v)])
        h1 == IF ~a_nan THEN [heap EXCEPT ![c1] = premultiply(@, None)] ELSE heap
        h2 == IF ~a_nan /\ b_nan THEN [h1 EXCEPT ![c2] = premultiply(@, a)] ELSE h1
        b == h2[c2].v[Len(h2[c2].v)]
        h3 == IF ~IsNaN(b) THEN [h2 EXCEPT ![c2] = premultiply(@, None)] ELSE h2
        h4 == IF ~IsNaN(b) /\ a_nan THEN [h3 EXCEPT ![c1] = premultiply(@, b)] ELSE h3
    IN  h4

\* lines 33-51: the heap after the pair c1, c2 is premultiplied
setup_premultiply(heap, c1, c2) ==
    LET a == heap[c1].v[Len(heap[c1].v)]
        b == heap[c2].v[Len(heap[c2].v)]
        a_nan == IsNaN(a)
        b_nan == IsNaN(b)
        h1 == IF ~a_nan THEN [heap EXCEPT ![c1] = premultiply(@, None)] ELSE heap
        h2 == IF ~a_nan /\ b_nan THEN [h1 EXCEPT ![c2] = premultiply(@, a)] ELSE h1
        h3 == IF ~b_nan THEN [h2 EXCEPT ![c2] = premultiply(@, None)] ELSE h2
        h4 == IF ~b_nan /\ a_nan THEN [h3 EXCEPT ![c1] = premultiply(@, b)] ELSE h3
    IN  h4

\* lines 21-53: one iteration of the loop of setup
setup_body(ip) ==
    LET c1 == ip.coordinates[ip.i + 1]
        c2 == ip.coordinates[ip.i + 2]
        ins == setup_insert(ip)
    IN  [ins EXCEPT
            !.heap = IF ip.premultiplied THEN setup_premultiply(@, c1, c2) ELSE @,
            !.i = @ + 2]

\* alg.clamp(t, 0.0, 1.0) of an exact fraction
clamp01(t) == <<clamp(t[1], 0, t[2]), t[2]>>

\* alg.lerp(a, b, t)
lerp(a, b, t) == a + ((b - a) * t[1]) \div t[2]

\* self.channel_names: the names of the channels of a vector
ChannelNames == <<"c", "alpha">>

\* the easing functions of the model, which leave [0, 1]; "none" is None
Callables == {"twice", "back"}

\* an easing argument: None, a callable, or a mapping from channel names and
\* 'all' to callables, where "none" stands for a missing key
Easing(kind, fn, c, alpha, all) ==
    [kind |-> kind, fn |-> fn,
     map |-> [n \in {"c", "alpha", "all"} |->
                 IF n = "c" THEN c ELSE IF n = "alpha" THEN alpha ELSE all]]

\* the easing arguments of the model
Easings ==
    {Easing("none", "none", "none", "none", "none")}
        \cup {Easing("callable", f, "none", "none", "none") : f \in Callables}
        \cup {Easing("mapping", "none", "none", "none", "none"),
              Easing("mapping", "none", "twice", "none", "none"),
              Easing("mapping", "none", "none", "none", "back"),
              Easing("mapping", "none", "twice", "none", "back"),
              Easing("mapping", "none", "none", "back", "twice")}

\* lines 83-90: the easing function of the channel called name, or "none"
select_progress(easing, name) ==
    IF easing.kind = "mapping"
    THEN IF easing.map[name] = "none" THEN easing.map["all"] ELSE easing.map[name]
    ELSE easing.fn

\* point if progress is None else progress(point)
progress(easing, point) ==
    IF easing = "twice" THEN <<2 * point[1], point[2]>>
    ELSE IF easing = "back" THEN <<0 - point[1], point[2]>>
    ELSE point

\* line 93 without the clamp
blend_factor_unclamped(easing, point) == progress(easing, point)

\* line 93: t, the eased point clamped to [0, 1]
blend_factor(easing, point) == clamp01(progress(easing, point))

\* lines 68-96 taking the undefined end where the defined one is meant
interpolate_channel_swapped(a, b, easing, point) ==
    IF IsNaN(a) /\ IsNaN(b) THEN NAN
    ELSE IF IsNaN(a) THEN a
    ELSE IF IsNaN(b) THEN b
    ELSE lerp(a, b, blend_factor(easing, point))

\* lines 68-96: one channel of the result, easing the channel's function
interpolate_channel(a, b, easing, point) ==
    IF IsNaN(a) /\ IsNaN(b) THEN NAN
    ELSE IF IsNaN(a) THEN b
    ELSE IF IsNaN(b) THEN a
    ELSE lerp(a, b, blend_factor(easing, point))

\* InterpolatorLinear.interpolate(easing, point, index)
interpolate(ip, easing, point, index) ==
    LET i == (index - 1) * 2
        v1 == ip.heap[ip.coordinates[i + 1]].v
        v2 == ip.heap[ip.coordinates[i + 2]].v
    IN  [k \in 1..Len(v1) |->
            interpolate_channel(v1[k], v2[k],
                                select_progress(easing, ChannelNames[k]), point)]

----------------------------------------------------------------------------
(* The interpolator, one step at a time *)

\* the stop lists of 2 .. MaxStops colours
StopLists == UNION {[1..n -> StopVectors] : n \in 2..MaxStops}

\* the interpolator was constructed from a stop list, every stop a vector of
\* its own, and setup() has just been called
InitInterp ==
    /\ pc = "setup"
    /\ \E stops \in StopLists, premultiplied \in BOOLEAN :
          /\ interp = [coordinates |-> [k \in 1..Len(stops) |-> k],
                       heap |-> [k \in 1..Len(stops) |-> Cell(stops[k], k, 0)],
                       length |-> Len(stops),
                       premultiplied |-> premultiplied,
                       i |-> 0,
                       end |-> 0]
          /\ call = [op |-> "setup", stops |-> stops]
    /\ self = <<>>
    /\ frame = <<>>

\* lines 17-19
SetupStart ==
    /\ pc = "setup"
    /\ interp' = [interp EXCEPT !.end = interp.length - 2, !.i = 0]
    /\ pc' = "setup_loop"
    /\ UNCHANGED <<self, call, frame>>

\* lines 20-53: one iteration
SetupStep ==
    /\ pc = "setup_loop"
    /\ interp.i <= interp.end
    /\ interp' = setup_body(interp)
    /\ UNCHANGED <<pc, self, call, frame>>

\* line 20: the loop ends
SetupDone ==
    /\ pc = "setup_loop"
    /\ ~(interp.i <= interp.end)
    /\ pc' = "ready"
    /\ UNCHANGED <<self, call, frame, interp>>

\* interpolate(easing, point, index) on the interpolator that was set up; the
\* interpolator serves one request
Interpolate ==
    /\ pc = "ready"
    /\ \E easing \in Easings, point \in Factors, index \in 1..(interp.length - 1) :
          call' = [op |-> "interpolate", stops |-> call.stops, easing |-> easing,
                   point |-> point, index |-> index,
                   channels |-> interpolate(interp, easing, point, index)]
    /\ pc' = "done"
    /\ UNCHANGED <<self, frame, interp>>

NextInterp == SetupStart \/ SetupStep \/ SetupDone \/ Interpolate

SpecInterp == InitInterp /\ [][NextInterp]_vars

\* setup runs to completion: no step of it waits for anything
FairSpecInterp == SpecInterp /\ WF_vars(NextInterp)

----------------------------------------------------------------------------
(* Properties of the interpolator *)

\* setup has returned
SetUp == pc \in {"ready", "done"}

\* the segments of the stop list
Segments == 1..(interp.length - 1)

\* the heap cell of the entry at position p, counted from 0
Entry(p) == interp.heap[interp.coordinates[p + 1]]

\* C9: setup terminates for every list of n >= 2 stops and leaves exactly
\* 2 * (n - 1) entries; for every segment k the entries at 2 * (k - 1) and
\* 2 * (k - 1) + 1, which interpolate(easing, point, k) blends, are the
\* original stops k - 1 and k; every interior stop appears as two separate
\* copies, one per adjacent segment.
C9_SetupPairs ==
    /\ [](SetUp =>
            /\ Len(interp.coordinates) = 2 * (interp.length - 1)
            /\ \A k \in Segments :
                  /\ Entry(2 * (k - 1)).src = k
                  /\ Entry(2 * (k - 1) + 1).src = k + 1
                  /\ ~interp.premultiplied =>
                        /\ Entry(2 * (k - 1)).v = call.stops[k]
                        /\ Entry(2 * (k - 1) + 1).v = call.stops[k + 1]
            /\ \A p, q \in 1..Len(interp.coordinates) :
                  p # q => interp.coordinates[p] # interp.coordinates[q]
            /\ \A j \in 2..(interp.length - 1) :
                  Cardinality({p \in 1..Len(interp.coordinates) :
                                  interp.heap[interp.coordinates[p]].src = j}) = 2
            /\ (call.op = "interpolate" /\ ~interp.premultiplied) =>
                  call.channels =
                      [c \in 1..2 |->
                          interpolate_channel(call.stops[call.index][c],
                                              call.stops[call.index + 1][c],
                                              select_progress(call.easing,
                                                              ChannelNames[c]),
                                              call.point)])
    /\ <>SetUp

\* four stops were set up into six entries and the third segment was blended
C9_Witness ==
    /\ pc = "done"
    /\ interp.length = 4
    /\ Len(interp.coordinates) = 6
    /\ call.op = "interpolate"
    /\ call.index = 3
    /\ call.stops[3] # call.stops[4]
    /\ Entry(3).src = 3 /\ Entry(4).src = 3

\* the vector v premultiplied by alpha a, which becomes its alpha
Scaled(v, a) ==
    [k \in 1..Len(v) |->
        IF k = Len(v) THEN a
        ELSE IF IsNaN(v[k]) THEN NAN ELSE (v[k] * a) \div U]

\* what an end v of a pair becomes next to its sibling sib
Expected(v, sib) ==
    IF ~IsNaN(v[Len(v)]) THEN Scaled(v, v[Len(v)])
    ELSE IF ~IsNaN(sib[Len(sib)]) THEN Scaled(v, sib[Len(sib)])
    ELSE v

\* how many times an end v of a pair is premultiplied next to its sibling
ExpectedCount(v, sib) ==
    IF IsNaN(v[Len(v)]) /\ IsNaN(sib[Len(sib)]) THEN 0 ELSE 1

\* C10: with premultiplication enabled, in every adjacent pair an end with a
\* defined alpha is premultiplied by its own alpha, an end with an undefined
\* alpha next to a defined one is premultiplied with the sibling's original
\* alpha, with both undefined neither end is premultiplied; no entry is ever
\* premultiplied more than once, and mirroring an interior stop in one
\* segment does not change its copy in the adjacent segment.
C10_Premultiply ==
    /\ pc \in {"setup", "setup_loop", "ready", "done"} =>
          \A c \in 1..Len(interp.heap) : interp.heap[c].pm <= 1
    /\ (SetUp /\ interp.premultiplied) =>
          \A k \in Segments :
              LET s1 == call.stops[k]
                  s2 == call.stops[k + 1]
                  e1 == Entry(2 * (k - 1))
                  e2 == Entry(2 * (k - 1) + 1)
              IN  /\ e1.v = Expected(s1, s2)
                  /\ e2.v = Expected(s2, s1)
                  /\ e1.pm = ExpectedCount(s1, s2)
                  /\ e2.pm = ExpectedCount(s2, s1)

\* an interior stop without alpha took alpha 0.5 from its left neighbour in
\* one copy and alpha 1 from its right neighbour in the other
C10_Witness ==
    /\ pc = "ready"
    /\ interp.premultiplied
    /\ call.stops = <<(<<6 * U, HalfAlpha>>), (<<2 * U, NAN>>), (<<4 * U, U>>)>>
    /\ Entry(1).v = <<(2 * U * HalfAlpha) \div U, HalfAlpha>>
    /\ Entry(2).v = <<2 * U, U>>
    /\ Entry(1).pm = 1 /\ Entry(2).pm = 1

\* the two entries that the last interpolate call blended
EndA == Entry(2 * (call.index - 1)).v

EndB == Entry(2 * (call.index - 1) + 1).v

\* the factor the call used for channel k: the point eased by the channel's
\* function and clamped to [0, 1]
UsedFactor(k) ==
    LET f == select_progress(call.easing, ChannelNames[k])
        e == IF f = "twice" THEN 2 * call.point[1]
             ELSE IF f = "back" THEN 0 - call.point[1]
             ELSE call.point[1]
    IN  <<Max2(0, Min2(e, call.point[2])), call.point[2]>>

\* r is a + (b - a) * t, rounded down to a unit
IsLerp(r, a, b, t) ==
    /\ t[2] * (r - a) <= (b - a) * t[1]
    /\ (b - a) * t[1] < t[2] * (r - a + 1)

\* C11: interpolate applies the undefined-channel rule to every channel of
\* the selected segment, alpha included: both ends undefined give undefined,
\* exactly one undefined gives the defined value for every point and easing,
\* otherwise the result is the linear interpolation of the two ends at the
\* eased factor.
C11_UndefinedRule ==
    call.op = "interpolate" =>
        /\ Len(call.channels) = Len(EndA)
        /\ \A k \in 1..Len(EndA) :
              LET a == EndA[k]
                  b == EndB[k]
                  r == call.channels[k]
              IN  /\ (IsNaN(a) /\ IsNaN(b)) => IsNaN(r)
                  /\ (IsNaN(a) /\ ~IsNaN(b)) => r = b
                  /\ (~IsNaN(a) /\ IsNaN(b)) => r = a
                  /\ (~IsNaN(a) /\ ~IsNaN(b)) =>
                        ~IsNaN(r) /\ IsLerp(r, a, b, UsedFactor(k))

\* a segment whose colour channel is defined at one end only and whose alpha
\* is defined at both ends, blended a quarter of the way under an easing
C11_Witness ==
    /\ call.op = "interpolate"
    /\ call.easing.kind = "mapping"
    /\ call.easing.map["alpha"] = "back"
    /\ 0 < call.point[1] /\ call.point[1] < call.point[2]
    /\ IsNaN(EndA[1]) /\ ~IsNaN(EndB[1])
    /\ call.channels[1] = EndB[1]
    /\ ~IsNaN(EndA[2]) /\ ~IsNaN(EndB[2]) /\ EndA[2] # EndB[2]
    /\ call.channels[2] = EndA[2]

----------------------------------------------------------------------------
(* hwb.py, lab.py, tools.py: constructing a colour and blending it *)

\* convert.convert(coords, space, space): the identity law of a conversion
\* from a space to itself, the only conversion of the model
convert(coords, from_space, to_space) == coords

\* DEF_BG parsed: "color(hwb 0 0 0 / 1)" and "[0, 0, 0, 1]"
DEF_BG(space) == Color(space, <<0, 0, 0>>, U)

\* an argument of a constructor: a colour (its channels and alpha in items),
\* a string (items are the values match() found, <<>> when it found None),
\* a list or tuple (items are its elements), or something else
Input(kind, space, items) == [kind |-> kind, space |-> space, items |-> items]

\* raise error
Failure(error) == [error |-> error, coords |-> <<>>, alpha |-> None]

\* the values the constructor assigns
Success(coords, alpha) == [error |-> "none", coords |-> coords, alpha |-> alpha]

\* the list branch accepting any list of three or more elements
init_list_loose(items) ==
    IF ~(3 <= Len(items))
    THEN Failure("ValueError")
    ELSE Success(SubSeq(items, 1, 3), IF Len(items) = 3 THEN U ELSE items[4])

\* hwb.py lines 35-41, lab.py lines 28-34: the list or tuple branch
init_list(items) ==
    IF ~(3 <= Len(items) /\ Len(items) <= 4)
    THEN Failure("ValueError")
    ELSE Success(SubSeq(items, 1, 3), IF Len(items) = 3 THEN U ELSE items[4])

\* hwb.py lines 27-43, lab.py lines 20-36: the branches of __init__
init(color) ==
    IF color.kind = "color"
    THEN Success(convert(SubSeq(color.items, 1, 3), color.space, color.space),
                 color.items[4])
    ELSE IF color.kind = "str"
    THEN IF color.items = <<>>
         THEN Failure("ValueError")
         ELSE Success(SubSeq(color.items, 1, 3), color.items[4])
    ELSE IF color.kind = "list"
    THEN init_list(color.items)
    ELSE Failure("TypeError")

\* HWB.__init__: the setters of _ch, _cw and _cb store the value
HWB_init(color) == init(color)

\* _LAB.__init__: the setters of _cl, _ca and _cb clamp the value
LAB_init(color) ==
    LET r == init(color)
    IN  IF r.error = "none" THEN [r EXCEPT !.coords = LAB_set(r.coords)] ELSE r

\* this._mix(channels1, channels2, factor, factor2) of the colour's class
space_mix(space, channels1, channels2, factor, factor2) ==
    IF space = "lab"
    THEN LAB_mix(channels1, channels2, factor, factor2)
    ELSE HWB_mix(channels1, channels2, factor, factor2)

\* tools.py line 184 without the clamp
mix_factor_unclamped(percent) == percent

\* tools.py line 184: factor = util.clamp(float(percent), 0.0, 1.0)
mix_factor(percent) == <<clamp(percent[1], 0, percent[2]), percent[2]>>

\* _ColorTools.mix(color, percent, alpha, space) with space the space of self
\* and of color: self after the call
mix(this, color, percent, alpha) ==
    LET factor == mix_factor(percent)
    IN  Color(this.space,
              space_mix(this.space, this.coords, color.coords, factor, <<1, 1>>),
              IF alpha
              THEN mix_channel(this.alpha, color.alpha, factor, <<1, 1>>)
              ELSE this.alpha)

\* _ColorTools.alpha_composite(background): self after the call
alpha_composite(this, background) ==
    IF this.alpha < U
    THEN Color(this.space,
               space_mix(this.space, this.coords, background.coords,
                         <<this.alpha, U>>, <<background.alpha, U>>),
               this.alpha + (background.alpha * (U - this.alpha)) \div U)
    ELSE this

\* lists of values: every prefix of one, the empty one included, is an
\* argument of the constructor of the space
ChannelLists(space) ==
    IF space = "lab"
    THEN {<<50 * U, 20 * U, (0 - 20) * U, HalfAlpha, 0>>,
          <<(0 - 10) * U, (0 - 50) * U, 30 * U, 0, U>>}
    ELSE {<<10 * TU, 0, 40 * U, HalfAlpha, 0>>,
          <<0, 60 * U, 40 * U, 0, U>>}

\* the arguments of the constructor of the space
Inputs(space) ==
    {Input("list", "none", SubSeq(l, 1, n)) :
        l \in ChannelLists(space), n \in 0..5}
        \cup {Input("color", space, <<0, 0, 0, U>>),
              Input("str", "none", <<>>),
              Input("str", "none", <<0, 0, 0, U>>),
              Input("other", "none", <<>>)}

\* the colours a colour of the space is blended with
Partners(space) ==
    IF space = "lab"
    THEN {Color("lab", <<50 * U, (0 - 50) * U, 30 * U>>, U),
          Color("lab", <<10 * U, 60 * U, 0>>, HalfAlpha)}
    ELSE {Color("hwb", <<0, 60 * U, 0>>, U),
          Color("hwb", <<10 * TU, 10 * U, 40 * U>>, HalfAlpha)}

\* the percent arguments of mix: from below 0 to above 1
Percents == {<<n, FD>> : n \in (0 - 2)..(FD + 2)}

\* no object: a constructor that raises leaves none
NoColor == Color("none", <<>>, None)

\* no colour yet
InitColor ==
    /\ pc = "construct"
    /\ self = NoColor
    /\ call = [op |-> "none"]
    /\ frame = <<>>
    /\ interp = <<>>

\* HWB(color) or _LAB(color): a raised error leaves no colour
New ==
    /\ pc = "construct"
    /\ \E space \in {"lab", "hwb"} :
          \E color \in Inputs(space) :
             LET r == IF space = "lab" THEN LAB_init(color) ELSE HWB_init(color)
             IN  /\ call' = [op |-> "new", space |-> space, color |-> color,
                             error |-> r.error]
                 /\ self' = IF r.error = "none"
                            THEN Color(space, r.coords, r.alpha)
                            ELSE self
                 /\ pc' = IF r.error = "none" THEN "constructed" ELSE "error"
    /\ UNCHANGED <<frame, interp>>

\* self.mix(color, percent, alpha, space) in the space of self and color
Mix ==
    /\ pc = "constructed"
    /\ \E color \in Partners(self.space), percent \in Percents, alpha \in BOOLEAN :
          /\ self' = mix(self, color, percent, alpha)
          /\ call' = [op |-> "mix", this |-> self, color |-> color,
                      percent |-> percent, alpha |-> alpha]
    /\ pc' = "blended"
    /\ UNCHANGED <<frame, interp>>

\* self.alpha_composite(background); without a background, DEF_BG is used
AlphaComposite ==
    /\ pc = "constructed"
    /\ \E given \in BOOLEAN, color \in Partners(self.space) :
          LET background == IF given THEN color ELSE DEF_BG(self.space)
          IN  /\ self' = alpha_composite(self, background)
              /\ call' = [op |-> "alpha_composite", this |-> self,
                          background |-> background]
    /\ pc' = "blended"
    /\ UNCHANGED <<frame, interp>>

NextColor == New \/ Mix \/ AlphaComposite

SpecColor == InitColor /\ [][NextColor]_vars

\* the interpolator and the colours together
InitClamp == InitInterp \/ InitColor

NextClamp == NextInterp \/ NextColor

SpecClamp == InitClamp /\ [][NextClamp]_vars

\* the point of the last interpolate call after the easing of channel k,
\* before any clamp
EasedPoint(k) ==
    LET f == select_progress(call.easing, ChannelNames[k])
    IN  IF f = "twice" THEN 2 * call.point[1]
        ELSE IF f = "back" THEN 0 - call.point[1]
        ELSE call.point[1]

\* C12: a factor outside [0, 1] never fails and is clamped: mix with a
\* percent below 0 leaves what percent 0 leaves and with a percent above 1
\* what percent 1 leaves, and interpolate clamps the factor after the
\* easing, so that each blended channel lies between its two end values.
C12_Clamped ==
    /\ call.op = "mix" =>
          /\ pc = "blended"
          /\ call.percent[1] < 0 =>
                self = mix(call.this, call.color, <<0, 1>>, call.alpha)
          /\ call.percent[1] > call.percent[2] =>
                self = mix(call.this, call.color, <<1, 1>>, call.alpha)
    /\ call.op = "interpolate" =>
          /\ pc = "done"
          /\ \A k \in 1..Len(EndA) :
                (~IsNaN(EndA[k]) /\ ~IsNaN(EndB[k])) =>
                    /\ Min2(EndA[k], EndB[k]) <= call.channels[k]
                    /\ call.channels[k] <= Max2(EndA[k], EndB[k])
                    /\ EasedPoint(k) < 0 => call.channels[k] = EndA[k]
                    /\ EasedPoint(k) > call.point[2] => call.channels[k] = EndB[k]

\* an easing took the factor of the alpha channel above 1 and the result is
\* the second end value
C12_Witness ==
    /\ call.op = "interpolate"
    /\ ~IsNaN(EndA[2]) /\ ~IsNaN(EndB[2]) /\ EndA[2] # EndB[2]
    /\ EasedPoint(2) > call.point[2]
    /\ call.channels[2] = EndB[2]

----------------------------------------------------------------------------
(* tools.py: the contrast ratio *)

\* luminances from 0 to above 1, in luminance units
Lums == {0, 1, L005, LU \div 4, LU \div 2, LU, 2 * LU}

\* an sRGB colour on which contrast_ratio is called
InitRatio ==
    /\ pc = "ratio"
    /\ \E c \in SRGBColors : self = Color("srgb", c, U)
    /\ call = [op |-> "none"]
    /\ frame = <<>>
    /\ interp = <<>>

\* calc_contrast_ratio(lum1, lum2)
CalcContrastRatio ==
    /\ pc = "ratio"
    /\ \E lum1 \in Lums, lum2 \in Lums :
          call' = [op |-> "calc_contrast_ratio", lum1 |-> lum1, lum2 |-> lum2,
                   out |-> calc_contrast_ratio(lum1, lum2)]
    /\ pc' = "returned"
    /\ UNCHANGED <<self, frame, interp>>

\* self.contrast_ratio(color)
ContrastRatio ==
    /\ pc = "ratio"
    /\ \E c \in SRGBColors :
          LET color == Color("srgb", c, U)
          IN  call' = [op |-> "contrast_ratio", lum1 |-> luminance(self),
                       lum2 |-> luminance(color),
                       out |-> calc_contrast_ratio(luminance(self),
                                                   luminance(color))]
    /\ pc' = "returned"
    /\ UNCHANGED <<self, frame, interp>>

NextRatio == CalcContrastRatio \/ ContrastRatio

SpecRatio == InitRatio /\ [][NextRatio]_vars

\* C13: calc_contrast_ratio(l1, l2) is (max(l1, l2) + 0.05) over
\* (min(l1, l2) + 0.05) for l1, l2 >= 0: it is symmetric in its arguments,
\* never below 1, and exactly 1 when l1 = l2; contrast_ratio returns it for
\* the two luminances.
C13_ContrastRatio ==
    pc = "returned" =>
        /\ call.lum1 >= 0 /\ call.lum2 >= 0
        /\ call.out = <<Max2(call.lum1, call.lum2) + L005,
                        Min2(call.lum1, call.lum2) + L005>>
        /\ call.out = calc_contrast_ratio(call.lum2, call.lum1)
        /\ call.out[1] >= call.out[2] /\ call.out[2] > 0
        /\ call.lum1 = call.lum2 => call.out[1] = call.out[2]

\* the ratio of a darker first and a lighter second luminance was computed
C13_Witness ==
    /\ pc = "returned"
    /\ call.op = "calc_contrast_ratio"
    /\ call.lum1 < call.lum2
    /\ call.out = <<call.lum2 + L005, call.lum1 + L005>>

\* the list or tuple given to the last constructor call
Items == call.color.items

\* the constructor call raised error and left no colour
Raised(error) == pc = "error" /\ call.error = error /\ self = NoColor

\* what holds of the constructor of every space: a list or tuple whose length
\* is not 3 or 4 fails with an error and yields no colour, a list of length
\* 3 gets alpha 1.0 and one of length 4 its fourth element as alpha, and an
\* input that is not a colour, string, list or tuple fails with a type error
C14_Lengths ==
    /\ (call.color.kind = "list" /\ Len(Items) \notin {3, 4}) =>
          Raised("ValueError")
    /\ (call.color.kind = "list" /\ Len(Items) \in {3, 4}) =>
          /\ pc = "constructed"
          /\ call.error = "none"
          /\ self.space = call.space
          /\ self.alpha = IF Len(Items) = 3 THEN U ELSE Items[4]
    /\ call.color.kind = "other" => Raised("TypeError")

\* C14: constructing an HWB or Lab colour from a list or tuple whose length
\* is not 3 or 4 fails with an error and yields no colour; a list of length 3
\* yields exactly those three channels with alpha 1.0, a list of length 4
\* takes the fourth element as alpha, and an input that is not a colour,
\* string, list or tuple fails with a type error.
C14_Constructor ==
    call.op = "new" =>
        /\ C14_Lengths
        /\ (call.color.kind = "list" /\ Len(Items) = 3) =>
              self.coords = Items

\* C14 as the code has it: as above, but the three channels of a list of
\* length 3 or 4 are stored as the setters of the class store them: HWB keeps
\* them exactly, Lab keeps a and b exactly and raises a negative lightness
\* to 0.
C14_ConstructorClamped ==
    call.op = "new" =>
        /\ C14_Lengths
        /\ (call.color.kind = "list" /\ Len(Items) \in {3, 4}) =>
              self.coords =
                  IF call.space = "lab"
                  THEN <<Max2(Items[1], 0), Items[2], Items[3]>>
                  ELSE SubSeq(Items, 1, 3)

\* a Lab colour made from a list of three channels with a negative lightness
C14_Witness ==
    /\ call.op = "new"
    /\ call.space = "lab"
    /\ call.color.kind = "list"
    /\ Len(Items) = 3
    /\ Items[1] < 0
    /\ pc = "constructed"
    /\ self.coords = <<0, Items[2], Items[3]>>
    /\ self.alpha = U

\* the channels of a colour of the space that are not a hue
NonHue(space) == IF space = "hwb" THEN {2, 3} ELSE {1, 2, 3}

\* r is f * a + b * ab * (1 - a) rounded down to a unit, a and ab in units
\* of 1/U
IsComposite(r, f, b, a, ab) ==
    /\ U * U * r <= f * a * U + b * ab * (U - a)
    /\ f * a * U + b * ab * (U - a) < U * U * (r + 1)

\* C15: alpha_composite(background) on a colour of alpha a < 1 over a
\* background of alpha ab leaves each non-hue channel as
\* foreground * a + background * ab * (1 - a), so that a fully transparent
\* foreground over an opaque background gets the background's channels, and
\* leaves the alpha a + ab * (1 - a), within [0, 1]; with a >= 1 the
\* channels and the alpha are unchanged.
C15_Composite ==
    call.op = "alpha_composite" =>
        LET fg == call.this
            bg == call.background
        IN  /\ fg.alpha < U =>
                  /\ \A k \in NonHue(fg.space) :
                        IsComposite(self.coords[k], fg.coords[k], bg.coords[k],
                                    fg.alpha, bg.alpha)
                  /\ (fg.alpha = 0 /\ bg.alpha = U) =>
                        \A k \in NonHue(fg.space) :
                            self.coords[k] = bg.coords[k]
                  /\ U * (self.alpha - fg.alpha) <= bg.alpha * (U - fg.alpha)
                  /\ bg.alpha * (U - fg.alpha) < U * (self.alpha - fg.alpha + 1)
                  /\ 0 <= self.alpha /\ self.alpha <= U
            /\ fg.alpha >= U => self = fg

====
